---------------------------- MODULE Spec2Model ----------------------------
(***************************************************************************)
(* The incremental log parser of RebirthItemTracker (src/log_parser.py):    *)
(* LogParser.parse() tails Isaac's log file, splits the cached content      *)
(* into lines and dispatches every new line to the handlers that mutate     *)
(* the TrackerState.                                                        *)
(*                                                                          *)
(* Text is modelled as what it is: a byte string is a sequence of           *)
(* one-character strings, so that seek offsets, slices, prefixes and        *)
(* regular-expression matches are computed on bytes as the code does.       *)
(***************************************************************************)
EXTENDS Integers, Sequences, FiniteSets, TLC

(***************************************************************************)
(* Bounds of the model.                                                     *)
(***************************************************************************)
\* The game writes at most this many lines in a run of the model.
MaxLines == 3
\* The stages 0..MaxStage and the alternate codes 0..MaxAlt of the floor lines.
MaxStage == 12
MaxAlt == 3
\* The lines a log holds already when the tracker starts late.
OldLines == 10
\* The trinket numbers MinTrinket..MaxTrinket of the gulp lines.
MinTrinket == 9
MaxTrinket == 11

None == "None"
LF == "\n"
CR == "\r"

Min(a, b) == IF a < b THEN a ELSE b

\* Python evaluates an expression once, when it is assigned or passed: F
\* applied to the value of the expression.
Call(F(_), arg) == CHOOSE out \in {F(v) : v \in {arg}} : TRUE

(***************************************************************************)
(* Python's string operations, on sequences of characters.                  *)
(***************************************************************************)
Digits == <<"0","1","2","3","4","5","6","7","8","9">>

IsDigit(c) == \E d \in 1..10 : Digits[d] = c

DigitVal(c) == (CHOOSE d \in 1..10 : Digits[d] = c) - 1

\* s.startswith(p)
startswith(s, p) == Len(s) >= Len(p) /\ SubSeq(s, 1, Len(p)) = p

\* p occurs in s at the 1-based position i
MatchesAt(s, p, i) == i >= 1 /\ i + Len(p) - 1 <= Len(s) /\ SubSeq(s, i, i + Len(p) - 1) = p

\* p in s
contains(s, p) == \E i \in 1..(Len(s) + 1) : MatchesAt(s, p, i)

\* s[a:b] for 0 <= a, 0 <= b (a slice is clipped to the string, never an error)
Slice(s, a, b) == IF a >= Min(b, Len(s)) THEN <<>> ELSE SubSeq(s, a + 1, Min(b, Len(s)))

\* s[a:]
SliceFrom(s, a) == IF a >= Len(s) THEN <<>> ELSE SubSeq(s, a + 1, Len(s))

\* s[1:-1]
StripEnds(s) == IF Len(s) <= 2 THEN <<>> ELSE SubSeq(s, 2, Len(s) - 1)

\* The k-th smallest element of a set of positions.
Nth(S, k) == CHOOSE x \in S : Cardinality({y \in S : y < x}) = k - 1

\* s.split(sep) for a one-character separator: every separator cuts, so
\* two separators in a row give an empty token.
splitAt(s, cuts) ==
    LET n == Cardinality(cuts)
        cut(k) == IF k = 0 THEN 0 ELSE IF k = n + 1 THEN Len(s) + 1 ELSE Nth(cuts, k)
    IN  [k \in 1..(n + 1) |-> SubSeq(s, cut(k - 1) + 1, cut(k) - 1)]

split(s, sep) == Call(LAMBDA cuts : splitAt(s, cuts), {i \in 1..Len(s) : s[i] = sep})

\* sep.join(parts)
RECURSIVE join(_, _)
join(sep, parts) ==
    IF parts = <<>> THEN <<>>
    ELSE IF Len(parts) = 1 THEN parts[1]
    ELSE parts[1] \o sep \o join(sep, Tail(parts))

\* s.splitlines(): "\n", "\r" and "\r\n" end a line; a last line with no
\* line end is a line; the empty string has no line.
splitlinesAt(s, ends) ==
    LET n == Cardinality(ends)
        \* the position after the k-th line end
        after(k) == IF k = 0 THEN 1
                    ELSE LET e == Nth(ends, k)
                         IN  IF s[e] = CR /\ e < Len(s) /\ s[e + 1] = LF THEN e + 2 ELSE e + 1
        whole == [k \in 1..n |-> SubSeq(s, after(k - 1), Nth(ends, k) - 1)]
    IN  IF after(n) <= Len(s) THEN Append(whole, SubSeq(s, after(n), Len(s))) ELSE whole

splitlines(s) ==
    Call(LAMBDA ends : splitlinesAt(s, ends),
         {i \in 1..Len(s) : s[i] = CR \/ (s[i] = LF /\ (i = 1 \/ s[i - 1] # CR))})

\* int(s) accepts an optional sign and one or more digits; anything else
\* (the empty string, a letter) raises ValueError.
IsIntLiteral(s) ==
    LET body == IF s # <<>> /\ s[1] \in {"+", "-"} THEN Tail(s) ELSE s
    IN  body # <<>> /\ \A i \in 1..Len(body) : IsDigit(body[i])

RECURSIVE digitsValue(_, _)
digitsValue(s, acc) ==
    IF s = <<>> THEN acc ELSE digitsValue(Tail(s), 10 * acc + DigitVal(s[1]))

int(s) ==
    IF s[1] = "-" THEN 0 - digitsValue(Tail(s), 0)
    ELSE IF s[1] = "+" THEN digitsValue(Tail(s), 0)
    ELSE digitsValue(s, 0)

\* str(n): the decimal digits of n, most significant first, no leading zero
RECURSIVE natStr(_)
natStr(n) == IF n < 10 THEN <<Digits[n + 1]>> ELSE Append(natStr(n \div 10), Digits[(n % 10) + 1])

str(n) == IF n < 0 THEN <<"-">> \o natStr(0 - n) ELSE natStr(n)

\* The position after the longest run of digits of s that starts at i (\d+
\* is greedy); i itself when s has no digit at i.
RECURSIVE digitsEnd(_, _)
digitsEnd(s, i) == IF i <= Len(s) /\ IsDigit(s[i]) THEN digitsEnd(s, i + 1) ELSE i

(***************************************************************************)
(* Regular expressions of the parser, as re.search computes them: the      *)
(* leftmost position at which the pattern matches.                          *)
(***************************************************************************)
\* re.search(r"Level::Init m_Stage (\d+), <field> (\d+)", line), the pattern
\* given as its two literal parts
FloorMatchAt(line, re, i) ==
    LET a == i + Len(re.head)
        b == digitsEnd(line, a)
        c == b + Len(re.mid)
    IN  MatchesAt(line, re.head, i) /\ b > a /\ MatchesAt(line, re.mid, b)
        /\ digitsEnd(line, c) > c

\* The leftmost of the positions at which a pattern matches.
Leftmost(starts) == CHOOSE i \in starts : \A j \in starts : i <= j

FloorGroups(line, re, i) ==
    LET a == i + Len(re.head)
        b == digitsEnd(line, a)
        c == b + Len(re.mid)
    IN  [matched |-> TRUE, group1 |-> SubSeq(line, a, b - 1),
         group2 |-> SubSeq(line, c, digitsEnd(line, c) - 1)]

FloorSearchAt(line, re, starts) ==
    IF starts = {} THEN [matched |-> FALSE, group1 |-> <<>>, group2 |-> <<>>]
    ELSE FloorGroups(line, re, Leftmost(starts))

FloorSearch(line, re) ==
    Call(LAMBDA starts : FloorSearchAt(line, re, starts),
         {i \in 1..Len(line) : FloorMatchAt(line, re, i)})

\* re.search(r"Room (.+?)\(", line): the text after the leftmost "Room "
\* that is followed, one character or more later, by "(", up to the first
\* such "("
RoomMatchAt(line, i) ==
    MatchesAt(line, <<"R","o","o","m"," ">>, i) /\ \E j \in (i + 6)..Len(line) : line[j] = "("

RoomGroup(line, i) ==
    LET e == CHOOSE j \in (i + 6)..Len(line) :
                line[j] = "(" /\ \A h \in (i + 6)..(j - 1) : line[h] # "("
    IN  [matched |-> TRUE, group1 |-> SubSeq(line, i + 5, e - 1)]

RoomSearchAt(line, starts) ==
    IF starts = {} THEN [matched |-> FALSE, group1 |-> <<>>]
    ELSE RoomGroup(line, Leftmost(starts))

RoomSearch(line) ==
    Call(LAMBDA starts : RoomSearchAt(line, starts),
         {i \in 1..Len(line) : RoomMatchAt(line, i)})

\* re.search(r"Added \d+ Collectibles", line)
RerollSearch(line) ==
    \E i \in 1..Len(line) :
        /\ MatchesAt(line, <<"A","d","d","e","d"," ">>, i)
        /\ digitsEnd(line, i + 6) > i + 6
        /\ MatchesAt(line, <<" ","C","o","l","l","e","c","t","i","b","l","e","s">>, digitsEnd(line, i + 6))

(***************************************************************************)
(* The collaborators of the parser: the item-info lookup (game_objects.    *)
(* item), the floors and curses (game_objects.floor) and the TrackerState  *)
(* (game_objects.state).                                                    *)
(***************************************************************************)
\* Item.modded_item_id_prefix
modded_item_id_prefix == <<"m">>

\* The ids the item-info lookup knows: two collectibles (The D6, a space-bar
\* item, and the Black Candle), one trinket and one modded item.
KnownItemIds == {<<"1","0","5">>, <<"2","6","0">>, <<"2","0","1","0">>, modded_item_id_prefix \o <<"M","o","d"," ","I","t","e","m">>}

\* Item.contains_info(item_id)
contains_info(item_id) == item_id \in KnownItemIds

\* The ids of the known space-bar items, whose repeated pickup the state
\* rejects.
SpaceBarItemIds == {<<"1","0","5">>}

\* Item(item_id, floor, starting_item, blind): the floor is a reference to
\* the floor object, held as its position in floor_list (0: no floor).
Item(item_id, floor, starting_item, blind) ==
    [item_id |-> item_id, floor |-> floor, starting_item |-> starting_item, blind |-> blind]

\* Floor(floor_id)
Floor(floor_id) == [floor_id |-> floor_id, curses |-> {}]

\* TrackerState("", tracker_version, game_version)
TrackerState(seed, game_version) ==
    [seed |-> seed, game_version |-> game_version, version_number |-> <<>>,
     room_id |-> <<>>, item_list |-> <<>>, floor_list |-> <<>>]

\* state.reset(seed, game_version): a fresh session that carries the seed
\* and the game version
state_reset(st, seed, game_version) ==
    [st EXCEPT !.seed = seed, !.game_version = game_version, !.room_id = <<>>,
               !.item_list = <<>>, !.floor_list = <<>>]

\* state.change_room(room_id)
state_change_room(st, room_id) == [st EXCEPT !.room_id = room_id]

\* state.add_floor(floor)
state_add_floor(st, floor) == [st EXCEPT !.floor_list = Append(@, floor)]

\* state.last_floor: the position of the most recently added floor (0: none)
last_floor(st) == Len(st.floor_list)

\* state.add_curse(curse): on the most recently added floor only
state_add_curse(st, curse) ==
    IF last_floor(st) = 0 THEN st
    ELSE [st EXCEPT !.floor_list[last_floor(st)].curses = @ \cup {curse}]

\* floor.floor_has_curse(curse)
floor_has_curse(st, floor, curse) == curse \in st.floor_list[floor].curses

\* state.contains_item(item_id)
state_contains_item(st, item_id) ==
    \E i \in 1..Len(st.item_list) : st.item_list[i].item_id = item_id

\* state.add_item(item) -> bool: a repeated pickup of a space-bar item is
\* rejected
add_item_accepts(st, item) ==
    ~(item.item_id \in SpaceBarItemIds /\ state_contains_item(st, item.item_id))

state_add_item(st, item) ==
    IF add_item_accepts(st, item) THEN [st EXCEPT !.item_list = Append(@, item)] ELSE st

\* state.remove_item(item_id) -> bool: the most recent pickup of the item
\* leaves the session
state_remove_item(st, item_id) ==
    IF ~state_contains_item(st, item_id) THEN st
    ELSE LET k == CHOOSE i \in 1..Len(st.item_list) :
                    /\ st.item_list[i].item_id = item_id
                    /\ \A j \in (i + 1)..Len(st.item_list) : st.item_list[j].item_id # item_id
         IN  [st EXCEPT !.item_list = SubSeq(@, 1, k - 1) \o SubSeq(@, k + 1, Len(@))]

(***************************************************************************)
(* The state.                                                               *)
(***************************************************************************)
VARIABLES
    file,          \* the bytes of the log file on disk, written by the game
    finder,        \* what log_finder.find_log_file(prefix) answers now: a path or None
    game_version,  \* Options().game_version
    self,          \* the fields of the LogParser, self.state among them
    result,        \* what the call of parse() that led here did: "state" (returned it),
                   \* "not ready" (returned None) or "error" (raised); "none" when the
                   \* last step was not a call of parse()
    branch,        \* the branch of __load_log_file that call took
    calls,         \* the calls that parse() made on self.state, in order
    dispatched,    \* the (absolute index, raw line) pairs that parse() gave to __parse_line
    okSeek,        \* self.seek as the latest call of parse() left it when that call
                   \* returned the state; -1 when there was no call or it did not
    scenario,      \* the lines the game may write in this run
    written        \* how many lines the game has written so far

vars == <<file, finder, game_version, self, result, branch, calls, dispatched, okSeek,
          scenario, written>>

\* The path of the log file, when the finder finds it.
LogPath == "log.txt"

GameVersions == {"Rebirth", "Afterbirth", "Afterbirth+", "Antibirth"}

\* A game_version none of the branches of the parser names.
OtherVersion == "Unknown"

(***************************************************************************)
(* The handlers work on the parser in the middle of a call: its fields,    *)
(* the calls made on self.state so far, the lines dispatched so far, the   *)
(* absolute index of the line in hand (-1 outside the loop) and the        *)
(* exception raised, if any.                                                *)
(***************************************************************************)
\* Every call is recorded with its name, the id it passes (a seed, a room
\* id, a floor id, a curse, an item id), for add_item the other fields of
\* the Item, and the line in hand.
Called(m, op, id) ==
    Append(m.calls, [op |-> op, id |-> id, floor |-> 0, starting_item |-> FALSE,
                     blind |-> FALSE, at |-> m.at])

CalledAddItem(m, item) ==
    Append(m.calls, [op |-> "add_item", id |-> item.item_id, floor |-> item.floor,
                     starting_item |-> item.starting_item, blind |-> item.blind, at |-> m.at])

\* LogParser.reset
reset(m) ==
    LET s == [m.self EXCEPT !.getting_start_items = FALSE,
                           !.current_room = <<>>,
                           !.current_seed = <<>>,
                           !.content = <<>>,
                           !.splitfile = <<>>,
                           !.run_start_line = 0,
                           !.seek = 0,
                           !.spawned_coop_baby = 0,
                           !.log_file_handle = None,
                           !.log_file_path = finder,
                           !.state = state_reset(@, <<>>, game_version)]
    IN  [m EXCEPT !.self = s, !.calls = Called(m, "reset", <<>>)]

\* LogParser.__trigger_new_run
trigger_new_run(m, line_number) ==
    [m EXCEPT !.self.run_start_line = line_number + m.self.seek,
              !.self.state = state_reset(@, m.self.current_seed, game_version),
              !.calls = Called(m, "reset", m.self.current_seed)]

\* line.split(): the words between runs of blanks
words(line) == SelectSeq(split(line, " "), LAMBDA w : w # <<>>)

\* LogParser.__parse_version_number
parse_version_number(m, line) ==
    [m EXCEPT !.self.state.version_number = words(line)[Len(words(line))]]

\* LogParser.__parse_seed
seed_read(m, line_number) ==
    IF m.self.opt = "Antibirth" THEN trigger_new_run(m, line_number) ELSE m

parse_seed(m, line, line_number) ==
    seed_read([m EXCEPT !.self.current_seed = Slice(line, 16, 25)], line_number)

\* LogParser.__parse_room
left_start_room(m, line) ==
    IF ~contains(line, <<"S","t","a","r","t"," ","R","o","o","m">>) THEN [m EXCEPT !.self.getting_start_items = FALSE] ELSE m

change_room(m, match) ==
    IF match.matched
    THEN [m EXCEPT !.self.state = state_change_room(@, match.group1),
                   !.calls = Called(m, "change_room", match.group1)]
    ELSE m

parse_room(m, line) ==
    Call(LAMBDA match : change_room(left_start_room(m, line), match), RoomSearch(line))

\* The regular expression __parse_floor selects for the game version.
FloorRegexp(version) ==
    IF version \in {"Afterbirth", "Afterbirth+"}
    THEN [head |-> <<"L","e","v","e","l",":",":","I","n","i","t"," ","m","_","S","t","a","g","e"," ">>, mid |-> <<","," ","m","_","S","t","a","g","e","T","y","p","e"," ">>]
    ELSE [head |-> <<"L","e","v","e","l",":",":","I","n","i","t"," ","m","_","S","t","a","g","e"," ">>, mid |-> <<","," ","m","_","A","l","t","S","t","a","g","e"," ">>]

\* A __parse_floor that does not know the Cathedral of Afterbirth.
FloorNumberNoCathedral(version, floor, alt) ==
    IF version \in {"Afterbirth", "Afterbirth+"}
    THEN IF floor = 11 /\ alt = <<"1">> THEN floor + 1 ELSE floor
    ELSE IF alt = <<"1">> /\ (floor = 9 \/ floor = 11) THEN floor + 1
         ELSE floor

\* The floor number __parse_floor derives from the stage and its alternate.
FloorNumber(version, floor, alt) ==
    IF version \in {"Afterbirth", "Afterbirth+"}
    THEN IF floor = 10 /\ alt = <<"0">> THEN floor - 1
         ELSE IF floor = 11 /\ alt = <<"1">> THEN floor + 1
         ELSE floor
    ELSE IF alt = <<"1">> /\ (floor = 9 \/ floor = 11) THEN floor + 1
         ELSE floor

\* The floor id __parse_floor gives to Floor().
FloorId(version, floor, alt) ==
    IF alt = <<"3">> THEN <<"f">> \o str(FloorNumber(version, floor, alt)) \o <<"g">>
    ELSE <<"f">> \o str(FloorNumber(version, floor, alt))

\* A __parse_floor that starts a new run at stage 1 under every version.
FloorStartsRunAnyVersion(version, floor) == floor = 1

\* Whether __parse_floor starts a new run at this floor.
FloorStartsRun(version, floor) == floor = 1 /\ version # "Antibirth"

\* state.add_floor(Floor(floor_id)), recorded
add_floor(m, floor_id) ==
    [m EXCEPT !.self.state = state_add_floor(@, Floor(floor_id)),
              !.calls = Called(m, "add_floor", floor_id)]

\* __parse_floor from the trigger of the new run on
floor_started(m, line_number, floor) ==
    IF FloorStartsRun(m.self.opt, floor) THEN trigger_new_run(m, line_number) ELSE m

\* A __parse_floor that adds the floor before it starts the new run.
floor_matched_AddsFirst(m, line_number, floor, alt) ==
    floor_started(add_floor([m EXCEPT !.self.getting_start_items = TRUE],
                            FloorId(m.self.opt, floor, alt)),
                  line_number, floor)

\* __parse_floor once its regular expression has matched
floor_matched(m, line_number, floor, alt) ==
    add_floor(floor_started([m EXCEPT !.self.getting_start_items = TRUE], line_number, floor),
              FloorId(m.self.opt, floor, alt))

floor_searched(m, line_number, search_result) ==
    IF ~search_result.matched THEN m
    ELSE floor_matched(m, line_number, int(search_result.group1), search_result.group2)

\* A __parse_floor that reads the floor under every game version.
parse_floor_AnyVersion(m, line, line_number) ==
    Call(LAMBDA search_result : floor_searched(m, line_number, search_result),
         FloorSearch(line, FloorRegexp(m.self.opt)))

\* LogParser.__parse_floor
parse_floor(m, line, line_number) ==
    IF m.self.opt \notin {"Afterbirth", "Afterbirth+", "Rebirth", "Antibirth"} THEN m
    ELSE Call(LAMBDA search_result : floor_searched(m, line_number, search_result),
              FloorSearch(line, FloorRegexp(m.self.opt)))

\* The curses a "Curse" line names.
CursesOf(line) ==
    (IF startswith(line, <<"C","u","r","s","e"," ","o","f"," ","t","h","e"," ","L","a","b","y","r","i","n","t","h","!">>) THEN <<"Labyrinth">> ELSE <<>>)
    \o (IF startswith(line, <<"C","u","r","s","e"," ","o","f"," ","B","l","i","n","d">>) THEN <<"Blind">> ELSE <<>>)
    \o (IF startswith(line, <<"C","u","r","s","e"," ","o","f"," ","t","h","e"," ","L","o","s","t","!">>) THEN <<"Lost">> ELSE <<>>)

\* LogParser.__parse_curse
RECURSIVE add_curses(_, _)
add_curses(m, curses) ==
    IF curses = <<>> THEN m
    ELSE add_curses([m EXCEPT !.self.state = state_add_curse(@, curses[1]),
                              !.calls = Called(m, "add_curse", <<curses[1]>>)], Tail(curses))

parse_curse(m, line) == add_curses(m, CursesOf(line))

\* The id __parse_item_add resolves: the numeric id when the lookup knows
\* it, else the modded id made of the name, else "NEW".
ItemAddId(line) ==
    LET space_split == split(line, " ")
        numeric_id == space_split[3]
        item_name == StripEnds(join(<<" ">>, SubSeq(space_split, 4, Len(space_split))))
    IN  IF contains_info(numeric_id) THEN numeric_id
        ELSE IF contains_info(modded_item_id_prefix \o item_name)
             THEN modded_item_id_prefix \o item_name
             ELSE <<"N","E","W">>

\* self.splitfile[line_number + self.seek - 1]: index -1 is the last element
PreviousRawLine(s, line_number) ==
    LET k == line_number + s.seek - 1
    IN  IF k < 0 THEN s.splitfile[Len(s.splitfile) + 1 + k] ELSE s.splitfile[k + 1]

\* The first test of __parse_item_add: the line repeats the line before it.
IsExactEcho(s, line_number, line) ==
    Len(s.splitfile) > 1 /\ PreviousRawLine(s, line_number) = line

\* The second test of __parse_item_add: the line is close to the line of
\* the co-op baby and the item is already held.
IsWindowedDuplicate(s, line_number, item_id) ==
    /\ ((line_number + s.seek) - s.spawned_coop_baby) < (Len(s.state.item_list) + 10)
    /\ state_contains_item(s.state, item_id)

\* The Item that __parse_item_add makes: a blind pickup on a floor with the
\* curse of the blind, unless the Black Candle is held.
PickedUp(s, item_id) ==
    Item(item_id, last_floor(s.state), s.getting_start_items,
         /\ floor_has_curse(s.state, last_floor(s.state), "Blind")
         /\ ~state_contains_item(s.state, <<"2","6","0">>))

\* state.add_item(item), recorded
add_item(m, item) ==
    [m EXCEPT !.self.state = state_add_item(@, item), !.calls = CalledAddItem(m, item)]

\* __parse_item_add after its first test
add_resolved(m, line_number, item_id) ==
    IF IsWindowedDuplicate(m.self, line_number, item_id) THEN m
    ELSE IF last_floor(m.self.state) = 0 THEN [m EXCEPT !.raised = "AttributeError"]
    ELSE add_item(m, PickedUp(m.self, item_id))

\* LogParser.__parse_item_add
parse_item_add(m, line_number, line) ==
    IF IsExactEcho(m.self, line_number, line) THEN m
    ELSE Call(LAMBDA item_id : add_resolved(m, line_number, item_id), ItemAddId(line))

\* A __parse_trinket_gulp that looks the number of the trinket up as it is.
TrinketIdNoOffset(number) ==
    LET numeric_id == str(int(number))
    IN  IF contains_info(numeric_id) THEN numeric_id ELSE <<"N","E","W">>

\* The id __parse_trinket_gulp resolves from the number of the trinket.
TrinketId(number) ==
    LET numeric_id == str(int(number) + 2000)
    IN  IF contains_info(numeric_id) THEN numeric_id ELSE <<"N","E","W">>

\* LogParser.__parse_trinket_gulp
gulp_number(m, number) ==
    IF ~IsIntLiteral(number) THEN [m EXCEPT !.raised = "ValueError"]
    ELSE add_item(m, Item(TrinketId(number), last_floor(m.self.state),
                          m.self.getting_start_items, FALSE))

parse_trinket_gulp(m, line) ==
    Call(LAMBDA number : gulp_number(m, number), split(line, " ")[3])

\* The id __parse_item_remove resolves: the numeric id when the lookup
\* knows it, else the modded id made of the name.
ItemRemoveId(line) ==
    LET space_split == split(line, " ")
        item_id == space_split[3]
        item_name == StripEnds(join(<<" ">>, SubSeq(space_split, 4, Len(space_split))))
    IN  IF contains_info(item_id) THEN item_id ELSE modded_item_id_prefix \o item_name

\* LogParser.__parse_item_remove
remove_item(m, removal_id) ==
    [m EXCEPT !.self.state = state_remove_item(@, removal_id),
              !.calls = Called(m, "remove_item", removal_id)]

parse_item_remove(m, line) ==
    Call(LAMBDA removal_id : remove_item(m, removal_id), ItemRemoveId(line))

\* The prefixes __parse_line slices off.
info_prefix == <<"[","I","N","F","O","]"," ","-"," ">>

luadebug_prefix == <<"L","u","a"," ","D","e","b","u","g",":"," ">>

\* The line __parse_line classifies: the raw line without the prefixes.
Normalized(raw) ==
    LET line == IF startswith(raw, info_prefix) THEN SliceFrom(raw, Len(info_prefix)) ELSE raw
    IN  IF startswith(line, luadebug_prefix) THEN SliceFrom(line, Len(luadebug_prefix)) ELSE line

\* The tests of __parse_line, each with its handler, in the order of the
\* code; each is made whatever the tests before it found.
on_afterbirth_banner(m, line) ==
    IF startswith(line, <<"B","i","n","d","i","n","g"," ","o","f"," ","I","s","a","a","c",":"," ","A","f","t","e","r","b","i","r","t","h">>) THEN parse_version_number(m, line) ELSE m

on_rebirth_banner(m, line) ==
    IF startswith(line, <<"B","i","n","d","i","n","g"," ","o","f"," ","I","s","a","a","c",":"," ","R","e","b","i","r","t","h">>) THEN parse_version_number(m, line) ELSE m

on_seed(m, line, line_number) ==
    IF startswith(line, <<"R","N","G"," ","S","t","a","r","t"," ","S","e","e","d",":">>) THEN parse_seed(m, line, line_number) ELSE m

on_room(m, line) == IF startswith(line, <<"R","o","o","m">>) THEN parse_room(m, line) ELSE m

on_floor(m, line, line_number) ==
    IF startswith(line, <<"L","e","v","e","l",":",":","I","n","i","t">>) THEN parse_floor(m, line, line_number) ELSE m

on_curse(m, line) == IF startswith(line, <<"C","u","r","s","e">>) THEN parse_curse(m, line) ELSE m

on_coop_baby(m, line, line_number) ==
    IF startswith(line, <<"S","p","a","w","n"," ","c","o","-","p","l","a","y","e","r","!">>)
    THEN [m EXCEPT !.self.spawned_coop_baby = line_number + m.self.seek] ELSE m

\* A test of the reroll that is skipped when an earlier test of the line has
\* led to a call.
on_reroll_Exclusive(m, line) ==
    IF RerollSearch(line) /\ \A i \in 1..Len(m.calls) : m.calls[i].at # m.at
    THEN [m EXCEPT !.calls = Called(m, "reroll", <<>>)] ELSE m

on_reroll(m, line) ==
    IF RerollSearch(line) THEN [m EXCEPT !.calls = Called(m, "reroll", <<>>)] ELSE m

on_item_add(m, line, line_number) ==
    IF startswith(line, <<"A","d","d","i","n","g"," ","c","o","l","l","e","c","t","i","b","l","e"," ">>) THEN parse_item_add(m, line_number, line) ELSE m

\* An exception ends the call: the tests after it are not made.
on_trinket_gulp(m, line) ==
    IF m.raised = None /\ startswith(line, <<"G","u","l","p","i","n","g"," ","t","r","i","n","k","e","t"," ">>)
    THEN parse_trinket_gulp(m, line) ELSE m

on_item_remove(m, line) ==
    IF m.raised = None /\ startswith(line, <<"R","e","m","o","v","i","n","g"," ","c","o","l","l","e","c","t","i","b","l","e"," ">>)
    THEN parse_item_remove(m, line) ELSE m

classify(m, line_number, line) ==
    Call(LAMBDA m10 : on_item_remove(m10, line),
    Call(LAMBDA m9 : on_trinket_gulp(m9, line),
    Call(LAMBDA m8 : on_item_add(m8, line, line_number),
    Call(LAMBDA m7 : on_reroll(m7, line),
    Call(LAMBDA m6 : on_coop_baby(m6, line, line_number),
    Call(LAMBDA m5 : on_curse(m5, line),
    Call(LAMBDA m4 : on_floor(m4, line, line_number),
    Call(LAMBDA m3 : on_room(m3, line),
    Call(LAMBDA m2 : on_seed(m2, line, line_number),
    Call(LAMBDA m1 : on_rebirth_banner(m1, line),
         on_afterbirth_banner(m, line)))))))))))

\* LogParser.__parse_line
parse_line(m, line_number, raw) ==
    Call(LAMBDA line : classify(m, line_number, line), Normalized(raw))

\* The line at line_number of self.splitfile[self.seek:] is given to
\* __parse_line: its absolute index and its text are recorded.
Dispatching(m, line_number) ==
    [m EXCEPT !.at = m.self.seek + line_number,
              !.dispatched = Append(@, [index |-> m.self.seek + line_number,
                                        line |-> m.self.splitfile[m.self.seek + line_number + 1]])]

\* The loop of parse() over self.splitfile[self.seek:], from line_number on.
RECURSIVE parse_lines(_, _)
parse_lines(m, line_number) ==
    IF m.raised # None \/ m.self.seek + line_number >= Len(m.self.splitfile) THEN m
    ELSE Call(LAMBDA after : parse_lines(after, line_number + 1),
              parse_line(Dispatching(m, line_number), line_number,
                         m.self.splitfile[m.self.seek + line_number + 1]))

\* The offset at which the append branch of __load_log_file starts to read.
AppendOffset(cached_length) == cached_length + 1

\* handle.seek(offset); handle.read(): the bytes of the file from the offset on
ReadFrom(offset) == SliceFrom(file, offset)

\* The new-log branch of __load_log_file, after its reset(): open() of
\* the path reset() found, which raises TypeError when there is none
load_new_log(m) ==
    IF m.self.log_file_path = None
    THEN [m |-> [m EXCEPT !.raised = "TypeError"], ret |-> FALSE, branch |-> "new"]
    ELSE [m |-> [m EXCEPT !.self.content = ReadFrom(0)], ret |-> TRUE, branch |-> "new"]

\* Whether __load_log_file takes the file for a new log.
IsNewLog(cached_length, file_size) == cached_length > file_size \/ cached_length = 0

\* __load_log_file once the path is known and the handle is open
load_open(m) ==
    IF IsNewLog(Len(m.self.content), Len(file)) THEN load_new_log(reset(m))
    ELSE IF Len(m.self.content) < Len(file)
    THEN [m |-> [m EXCEPT !.self.content = @ \o ReadFrom(AppendOffset(Len(m.self.content)))],
          ret |-> TRUE, branch |-> "append"]
    ELSE [m |-> m, ret |-> TRUE, branch |-> "same"]

\* LogParser.__load_log_file: the parser after it, what it returned and the
\* branch it took
load_log_file(m) ==
    IF m.self.log_file_path = None THEN [m |-> m, ret |-> FALSE, branch |-> "none"]
    ELSE load_open([m EXCEPT !.self.log_file_handle = "open"])

\* A parse() that stores the number of the lines it has just processed.
SeekAfterCountsNewLines(s) == Len(s.splitfile) - s.seek

\* The line index parse() stores in self.seek when its loop is done.
SeekAfter(s) == Len(s.splitfile)

\* What a call of parse() comes to: the parser after it, what the call
\* returned ("state", "not ready" for None, "error" for an exception) and
\* the branch of __load_log_file.
Outcome(m, res, br) == [m |-> m, result |-> res, branch |-> br]

\* parse() at its start: self.opt = Options()
parse_begin(s) ==
    [self |-> [s EXCEPT !.opt = game_version], calls |-> <<>>, dispatched |-> <<>>,
     raised |-> None, at |-> -1]

\* parse() before its loop: the content is split, the flag is cleared
parse_split(m) ==
    [m EXCEPT !.self.splitfile = splitlines(m.self.content),
              !.self.getting_start_items = FALSE]

\* parse() after its loop
parse_end(m, br) ==
    IF m.raised # None THEN Outcome(m, "error", br)
    ELSE Outcome([m EXCEPT !.self.seek = SeekAfter(m.self)], "state", br)

\* parse() after __load_log_file
parse_loaded(loaded) ==
    IF loaded.m.raised # None THEN Outcome(loaded.m, "error", loaded.branch)
    ELSE IF ~loaded.ret THEN Outcome(loaded.m, "not ready", loaded.branch)
    ELSE Call(LAMBDA after : parse_end(after, loaded.branch),
              Call(LAMBDA before : parse_lines(before, 0), parse_split(loaded.m)))

\* LogParser.parse
parse(s) == Call(parse_loaded, Call(load_log_file, parse_begin(s)))

(***************************************************************************)
(* The lines of the log.                                                    *)
(***************************************************************************)
FloorInitStage1 == <<"L","e","v","e","l",":",":","I","n","i","t"," ","m","_","S","t","a","g","e"," ","1",","," ","m","_","S","t","a","g","e","T","y","p","e"," ","0">>

FloorInitStage2 == <<"L","e","v","e","l",":",":","I","n","i","t"," ","m","_","S","t","a","g","e"," ","2",","," ","m","_","S","t","a","g","e","T","y","p","e"," ","0">>

FloorInitAltStage1 == <<"L","e","v","e","l",":",":","I","n","i","t"," ","m","_","S","t","a","g","e"," ","1",","," ","m","_","A","l","t","S","t","a","g","e"," ","0">>

SeedLine == <<"R","N","G"," ","S","t","a","r","t"," ","S","e","e","d",":"," ","A","A","A","A"," ","1","1","1","1"," ","(","1","2","3","4",")">>

AddD6 == <<"A","d","d","i","n","g"," ","c","o","l","l","e","c","t","i","b","l","e"," ","1","0","5"," ","(","T","h","e"," ","D","6",")">>

AddD6Info == info_prefix \o AddD6

GulpBad == <<"G","u","l","p","i","n","g"," ","t","r","i","n","k","e","t"," ","x">>

\* "Gulping trinket <n>"
GulpLine(n) == <<"G","u","l","p","i","n","g"," ","t","r","i","n","k","e","t"," ">> \o str(n)

GulpLines == {GulpLine(n) : n \in MinTrinket..MaxTrinket}

RoomLine == <<"R","o","o","m"," ","1",".","2","(","S","h","o","p",")">>

\* Lines that satisfy the test of the reroll and one more test.
FloorReroll == FloorInitStage1 \o <<" ","A","d","d","e","d"," ","3"," ","C","o","l","l","e","c","t","i","b","l","e","s">>

RoomReroll == <<"R","o","o","m"," ","1",".","2","(","A","d","d","e","d"," ","3"," ","C","o","l","l","e","c","t","i","b","l","e","s",")">>

AddReroll == <<"A","d","d","i","n","g"," ","c","o","l","l","e","c","t","i","b","l","e"," ","1","0","5"," ","(","A","d","d","e","d"," ","3"," ","C","o","l","l","e","c","t","i","b","l","e","s",")">>

RemoveReroll == <<"R","e","m","o","v","i","n","g"," ","c","o","l","l","e","c","t","i","b","l","e"," ","1","0","5"," ","(","A","d","d","e","d"," ","3"," ","C","o","l","l","e","c","t","i","b","l","e","s",")">>

\* An item the lookup knows by its number, one it knows by its name only and
\* one it does not know, picked up and lost.
RemoveD6 == <<"R","e","m","o","v","i","n","g"," ","c","o","l","l","e","c","t","i","b","l","e"," ","1","0","5"," ","(","T","h","e"," ","D","6",")">>

AddModded == <<"A","d","d","i","n","g"," ","c","o","l","l","e","c","t","i","b","l","e"," ","7","0","0"," ","(","M","o","d"," ","I","t","e","m",")">>

RemoveModded == <<"R","e","m","o","v","i","n","g"," ","c","o","l","l","e","c","t","i","b","l","e"," ","7","0","0"," ","(","M","o","d"," ","I","t","e","m",")">>

AddUnknown == <<"A","d","d","i","n","g"," ","c","o","l","l","e","c","t","i","b","l","e"," ","9","9","9"," ","(","F","o","o",")">>

RemoveUnknown == <<"R","e","m","o","v","i","n","g"," ","c","o","l","l","e","c","t","i","b","l","e"," ","9","9","9"," ","(","F","o","o",")">>

\* A line no test of __parse_line matches.
LoadingLine == <<"L","o","a","d","i","n","g">>

\* "Level::Init m_Stage <stage>, <field> <alt>"
FloorInitLine(field, stage, alt) ==
    <<"L","e","v","e","l",":",":","I","n","i","t"," ","m","_","S","t","a","g","e"," ">> \o str(stage) \o <<","," ">> \o field \o <<" ">> \o str(alt)

FloorInitLines ==
    {FloorInitLine(field, stage, alt) :
        field \in {<<"m","_","S","t","a","g","e","T","y","p","e">>, <<"m","_","A","l","t","S","t","a","g","e">>}, stage \in 0..MaxStage, alt \in 0..MaxAlt}

\* What the game writes in a run: the lines of one scenario only.
Scenarios ==
    [run    |-> {FloorInitStage1, FloorInitStage2, FloorInitAltStage1, SeedLine},
     dedup  |-> {FloorInitStage1, AddD6, AddD6Info, GulpBad},
     gulp   |-> {FloorInitStage1, SeedLine, RoomLine, GulpBad},
     floors |-> FloorInitLines,
     start  |-> {SeedLine, FloorInitStage1, AddD6},
     trinket |-> {FloorInitStage1} \cup GulpLines,
     mixed  |-> {FloorReroll, RoomReroll, AddReroll, RemoveReroll},
     lost   |-> {FloorInitStage1, AddD6, RemoveD6, AddModded, RemoveModded,
                 AddUnknown, RemoveUnknown}]

\* The log of a game that has run for a while: OldLines lines that mean
\* nothing to the tracker.
RECURSIVE Repeated(_, _)
Repeated(line, n) == IF n = 0 THEN <<>> ELSE line \o <<LF>> \o Repeated(line, n - 1)

OldLog == Repeated(LoadingLine, OldLines)

\* The log of a run that is under way: the second floor, one item held.
PlayedLog == FloorInitStage2 \o <<LF>> \o AddD6 \o <<LF>>

(***************************************************************************)
(* The parser as __init__ leaves it, and the operations.                    *)
(***************************************************************************)
\* LogParser.__init__
init ==
    LET s == [getting_start_items |-> FALSE, current_room |-> <<>>, current_seed |-> <<>>,
              content |-> <<>>, splitfile |-> <<>>, run_start_line |-> 0, seek |-> 0,
              spawned_coop_baby |-> 0, log_file_handle |-> None, log_file_path |-> None,
              opt |-> None, state |-> TrackerState(<<>>, game_version)]
    IN  reset([self |-> s, calls |-> <<>>, dispatched |-> <<>>, raised |-> None, at |-> -1]).self

InitWith(versions, scenarios, logs) ==
    /\ file \in logs
    /\ finder \in {None, LogPath}
    /\ game_version \in versions
    /\ scenario \in scenarios
    /\ self = init
    /\ result = "none"
    /\ branch = "none"
    /\ calls = <<>>
    /\ dispatched = <<>>
    /\ okSeek = -1
    /\ written = 0

Init == InitWith(GameVersions \cup {OtherVersion}, {"run"}, {<<>>})

\* A step of the world around the parser: no call of parse() led here.
NoCall ==
    /\ result' = "none"
    /\ branch' = "none"
    /\ calls' = <<>>
    /\ dispatched' = <<>>

\* The game writes one more line at the end of its log.
GameWrites ==
    /\ written < MaxLines
    /\ \E line \in Scenarios[scenario] : file' = file \o line \o <<LF>>
    /\ written' = written + 1
    /\ NoCall
    /\ UNCHANGED <<finder, game_version, self, okSeek, scenario>>

\* The game starts again and truncates its log.
GameRestarts ==
    /\ file # <<>>
    /\ file' = <<>>
    /\ NoCall
    /\ UNCHANGED <<finder, game_version, self, okSeek, scenario, written>>

\* The log file appears or goes: the finder changes its answer.
FinderChanges ==
    /\ finder' = IF finder = None THEN LogPath ELSE None
    /\ NoCall
    /\ UNCHANGED <<file, game_version, self, okSeek, scenario, written>>

\* What a call of parse() leaves behind.
Returns(r) ==
    /\ self' = r.m.self
    /\ result' = r.result
    /\ branch' = r.branch
    /\ calls' = r.m.calls
    /\ dispatched' = r.m.dispatched
    /\ okSeek' = IF r.result = "state" THEN r.m.self.seek ELSE -1

\* The caller polls: one call of LogParser.parse().
Parse ==
    /\ \E r \in {parse(self)} : Returns(r)
    /\ UNCHANGED <<file, finder, game_version, scenario, written>>

Next == GameWrites \/ GameRestarts \/ FinderChanges \/ Parse

Spec == Init /\ [][Next]_vars

\* The log of a co-op run under Afterbirth+, the tracker started with the
\* game or late.
InitDedup == InitWith({"Afterbirth+"}, {"dedup"}, {<<>>, OldLog})

SpecDedup == InitDedup /\ [][Next]_vars

\* The log of a run with trinket gulps (a mod such as Racing+) under
\* Afterbirth+.
InitGulp == InitWith({"Afterbirth+"}, {"gulp"}, {<<>>})

SpecGulp == InitGulp /\ [][Next]_vars

\* The caller polls on a timer: a call of parse() that is due is made.
FairSpec == InitDedup /\ [][Next]_vars /\ WF_vars(Parse)

\* One floor-init line, any stage and alternate, under every game version.
InitFloor == InitWith(GameVersions \cup {OtherVersion}, {"floors"}, {<<>>})

\* The game writes the one floor-init line of its log.
GameWritesFloor ==
    /\ written = 0
    /\ \E line \in Scenarios[scenario] : file' = line \o <<LF>>
    /\ written' = 1
    /\ NoCall
    /\ UNCHANGED <<finder, game_version, self, okSeek, scenario>>

NextFloor == GameWritesFloor \/ FinderChanges \/ Parse

FloorSpec == InitFloor /\ [][NextFloor]_vars

\* The start of a run under Afterbirth and Afterbirth+, in a fresh log or
\* after a run that is under way.
InitStart == InitWith({"Afterbirth", "Afterbirth+"}, {"start"}, {<<>>, PlayedLog})

SpecStart == InitStart /\ [][Next]_vars

\* A run with trinket gulps under Afterbirth+.
InitTrinket == InitWith({"Afterbirth+"}, {"trinket"}, {<<>>})

SpecTrinket == InitTrinket /\ [][Next]_vars

\* A log whose lines each satisfy two tests of __parse_line, under
\* Afterbirth+.
InitMixed == InitWith({"Afterbirth+"}, {"mixed"}, {<<>>})

SpecMixed == InitMixed /\ [][Next]_vars

\* The checks of the lost items: the log of a run with pickups and losses,
\* under Afterbirth+.
InitLost == InitWith({"Afterbirth+"}, {"lost"}, {<<>>})

SpecLost == InitLost /\ [][Next]_vars
(***************************************************************************)
(* The properties.                                                          *)
(***************************************************************************)
\* The session cursor of the parser.
Cursor(s) ==
    <<s.content, s.seek, s.run_start_line, s.spawned_coop_baby, s.getting_start_items,
      s.current_seed, s.current_room>>

IsPrefix(p, s) == Len(p) <= Len(s) /\ SubSeq(s, 1, Len(p)) = p

\* The calls of one kind among the calls of the last parse().
CallsOf(op) == {i \in 1..Len(calls) : calls[i].op = op}

(* C1: a call of parse() that follows a call of parse() with no change of the
   log file in between leaves every field of the session cursor as it was
   and makes no call on the session state. *)
C1_Idempotent ==
    [][(result # "none" /\ result' # "none") =>
           (Cursor(self)' = Cursor(self) /\ calls' = <<>>)]_vars

(* C2: no call of parse() raises: every call returns the session state or
   None ("not ready"). *)
C2_NeverRaises == result # "error"

(* C3: when __load_log_file takes the append branch on a log that only grew
   by appending (the cached content is the start of the file), the cached
   content is afterwards the whole file, byte for byte. *)
C3_AppendFidelity ==
    [][(branch' = "append" /\ IsPrefix(self.content, file)) => self'.content = file']_vars

\* Every line of the file on disk, with its absolute index from 0 on.
WholeFileDispatched ==
    [i \in 1..Len(splitlines(file)) |-> [index |-> i - 1, line |-> splitlines(file)[i]]]

(* C4: a call of parse() that takes the file for a new log resets the
   session before any line is processed, reads the file from offset 0, gives
   every line of the file once to __parse_line, from absolute index 0 on, and
   leaves in the session state only what the calls of this parse() put
   there. *)
C4_NewLog ==
    (result # "none" /\ branch = "new") =>
        /\ calls # <<>> /\ calls[1].op = "reset" /\ calls[1].at = -1
        /\ self.content = file
        /\ dispatched = WholeFileDispatched
        /\ Len(self.state.item_list) <= Cardinality(CallsOf("add_item"))
        /\ Len(self.state.floor_list) <= Cardinality(CallsOf("add_floor"))

(* C5: of two calls of parse() in a row that both return the session state,
   the later leaves self.seek at least where the earlier left it, unless the
   later took the file for a new log. *)
C5_SeekMonotonic ==
    [][(result' = "state" /\ branch' # "new" /\ okSeek # -1) => self'.seek >= okSeek]_vars

\* An append load that returned the state, after a call that had returned
\* it with lines consumed.
C5_Witness ==
    /\ result = "state" /\ branch = "append"
    /\ dispatched # <<>> /\ dispatched[1].index >= 1

(* C6: when the finder comes to answer a path and goes on doing so, the
   caller's polling gets, again and again, a call of parse() that does not
   return None ("not ready"): the parser does not stay "not ready" for ever. *)
C6_RetryByPolling ==
    <>[](finder = LogPath) => []<>(result \in {"state", "error"})

\* Whether __parse_line takes the raw line for an item-add line.
IsItemAddLine(raw) == startswith(Normalized(raw), <<"A","d","d","i","n","g"," ","c","o","l","l","e","c","t","i","b","l","e"," ">>)

\* Whether the last parse() called add_item for the line at this index.
AddedAt(index) == \E c \in CallsOf("add_item") : calls[c].at = index

(* C7: an item-add line that is byte for byte the raw line before it never
   results in a call of add_item, with or without the "[INFO] - " or
   "Lua Debug: " prefix on the two lines. *)
C7_ExactEcho ==
    \A i \in 1..Len(dispatched) :
        (/\ dispatched[i].index >= 1
         /\ IsItemAddLine(dispatched[i].line)
         /\ self.splitfile[dispatched[i].index] = dispatched[i].line)
        => ~AddedAt(dispatched[i].index)

\* Whether a "Spawn co-player!" line comes before this index in the log.
MarkerBefore(index) ==
    \E j \in 1..index : startswith(Normalized(self.splitfile[j]), <<"S","p","a","w","n"," ","c","o","-","p","l","a","y","e","r","!">>)

\* Whether the exact-echo rule applies to the line at this index.
EchoAt(index, raw) ==
    /\ Len(self.splitfile) > 1
    /\ self.splitfile[IF index = 0 THEN Len(self.splitfile) ELSE index] = Normalized(raw)

(* C8: the windowed rule suppresses an item-add line only after a
   "Spawn co-player!" line of the current log: an item-add line with no such
   line before it, that the exact-echo rule lets through and at which
   parse() does not raise, results in a call of add_item. *)
C8_WindowNeedsMarker ==
    \A i \in 1..Len(dispatched) :
        (/\ IsItemAddLine(dispatched[i].line)
         /\ ~MarkerBefore(dispatched[i].index)
         /\ ~EchoAt(dispatched[i].index, dispatched[i].line)
         /\ ~(result = "error" /\ i = Len(dispatched)))
        => AddedAt(dispatched[i].index)

\* The lines of the run scenario that start a new run, by game version.
NewRunLines(version) ==
    CASE version \in {"Afterbirth", "Afterbirth+"} -> {FloorInitStage1}
      [] version = "Rebirth" -> {FloorInitAltStage1}
      [] version = "Antibirth" -> {SeedLine}
      [] OTHER -> {}

\* The calls of state.reset the last parse() made for the line at this index.
NewRunsAt(index) == {c \in CallsOf("reset") : calls[c].at = index}

\* The seed in hand when the line at this index has gone through
\* __parse_seed: the seed of the seed line, if one came so far.
SeedUpTo(index) ==
    IF \E j \in 1..(index + 1) : self.splitfile[j] = SeedLine THEN <<"A","A","A","A"," ","1","1","1","1">> ELSE <<>>

(* C9: under Rebirth, Afterbirth and Afterbirth+ every floor-init line of
   stage 1 that matches the regular expression of the version starts a new
   run, and a seed line starts none; under Antibirth every seed line starts a
   new run and a floor-init line of stage 1 starts none; no other line starts
   one. A new run is one call of state.reset with the current seed, and
   run_start_line is the absolute index of the line. *)
C9_NewRunTrigger ==
    \A i \in 1..Len(dispatched) :
        IF dispatched[i].line \in NewRunLines(game_version)
        THEN /\ Cardinality(NewRunsAt(dispatched[i].index)) = 1
             /\ \A c \in NewRunsAt(dispatched[i].index) :
                    calls[c].id = SeedUpTo(dispatched[i].index)
             /\ self.run_start_line >= dispatched[i].index
             /\ \E k \in i..Len(dispatched) :
                    /\ dispatched[k].line \in NewRunLines(game_version)
                    /\ self.run_start_line = dispatched[k].index
        ELSE NewRunsAt(dispatched[i].index) = {}

\* A new run started at a later line of the log, with a seed.
C9_Witness ==
    \E c \in CallsOf("reset") : calls[c].at >= 1 /\ calls[c].id # <<>>

\* The floor number of the version table.
TableFloor(version, stage, alt) ==
    CASE version \in {"Afterbirth", "Afterbirth+"} /\ stage = 10 /\ alt = 0 -> 9
      [] version \in {"Afterbirth", "Afterbirth+"} /\ stage = 11 /\ alt = 1 -> 12
      [] version \in {"Rebirth", "Antibirth"} /\ stage = 9 /\ alt = 1 -> 10
      [] version \in {"Rebirth", "Antibirth"} /\ stage = 11 /\ alt = 1 -> 12
      [] OTHER -> stage

\* The floor id of the version table: "f", the floor number, and "g" when
\* the alternate is 3.
TableFloorId(version, stage, alt) ==
    <<"f">> \o str(TableFloor(version, stage, alt)) \o (IF alt = 3 THEN <<"g">> ELSE <<>>)

\* The field of the floor-init line of the version.
TableField(version) ==
    IF version \in {"Afterbirth", "Afterbirth+"} THEN <<"m","_","S","t","a","g","e","T","y","p","e">> ELSE <<"m","_","A","l","t","S","t","a","g","e">>

(* C10: for every game version, stage and alternate code, the floor-init
   line of the version gives the floor id of the version table: one call of
   add_floor, with that id. *)
C10_FloorIds ==
    \A stage \in 0..MaxStage, alt \in 0..MaxAlt :
        (/\ result = "state"
         /\ game_version \in GameVersions
         /\ dispatched =
                <<[index |-> 0, line |-> FloorInitLine(TableField(game_version), stage, alt)]>>)
        => /\ Cardinality(CallsOf("add_floor")) = 1
           /\ \A c \in CallsOf("add_floor") :
                  calls[c].id = TableFloorId(game_version, stage, alt)

\* The Cathedral under Afterbirth: stage 10, type 0, floor "f9".
C10_Witness ==
    /\ result = "state"
    /\ game_version = "Afterbirth"
    /\ dispatched = <<[index |-> 0, line |-> FloorInitLine(<<"m","_","S","t","a","g","e","T","y","p","e">>, 10, 0)]>>
    /\ \E c \in CallsOf("add_floor") : calls[c].id = <<"f","9">>

\* The lines the last parse() gave to __parse_line, the last n of them.
LastDispatched(n) ==
    IF Len(dispatched) < n THEN <<>>
    ELSE [k \in 1..n |-> dispatched[Len(dispatched) - n + k].line]

(* C11: under Afterbirth and Afterbirth+, when the lines a parse() has just
   processed end with a seed line, a floor-init line of stage 1 and an
   item-add line for the known id 105, whatever the session held before, the
   call returns the session and the session holds one floor, "f1", and one
   item, 105, on that floor. *)
C11_RunStart ==
    (/\ game_version \in {"Afterbirth", "Afterbirth+"}
     /\ LastDispatched(3) = <<SeedLine, FloorInitStage1, AddD6>>)
    => /\ result = "state"
       /\ Len(self.state.floor_list) = 1
       /\ self.state.floor_list[1].floor_id = <<"f","1">>
       /\ Len(self.state.item_list) = 1
       /\ self.state.item_list[1].item_id = <<"1","0","5">>
       /\ self.state.item_list[1].floor = 1

\* The run starts in a log that held a floor and an item already.
C11_Witness ==
    /\ result = "state"
    /\ Len(dispatched) = 5
    /\ LastDispatched(3) = <<SeedLine, FloorInitStage1, AddD6>>
    /\ Len(self.state.item_list) = 1

\* The calls of add_item the last parse() made for the line at this index.
AddsAt(index) == {c \in CallsOf("add_item") : calls[c].at = index}

\* The id of the trinket n: the decimal string of n + 2000 when the lookup
\* knows it, else "NEW".
TrinketTableId(n) == IF str(n + 2000) \in KnownItemIds THEN str(n + 2000) ELSE <<"N","E","W">>

(* C12: every line "Gulping trinket <n>" with a number n results in one call
   of add_item, with the decimal string of n + 2000 for id when the lookup
   knows that string and with "NEW" otherwise. *)
C12_TrinketNamespace ==
    \A i \in 1..Len(dispatched), n \in MinTrinket..MaxTrinket :
        dispatched[i].line = GulpLine(n)
        => /\ Cardinality(AddsAt(dispatched[i].index)) = 1
           /\ \A c \in AddsAt(dispatched[i].index) : calls[c].id = TrinketTableId(n)

\* A parse() has gulped trinket 10, which the lookup knows as 2010, and a
\* trinket it does not know.
C12_Witness ==
    /\ result = "state"
    /\ \E c \in CallsOf("add_item") : calls[c].id = <<"2","0","1","0">>
    /\ \E c \in CallsOf("add_item") : calls[c].id = <<"N","E","W">>

(* C16: the suppression rules of the item-add lines apply to the trinket
   gulps: a line "Gulping trinket <n>" that is byte for byte the raw line
   before it never results in a call of add_item. *)
C16_GulpEcho ==
    \A i \in 1..Len(dispatched) :
        (/\ dispatched[i].index >= 1
         /\ dispatched[i].line \in GulpLines
         /\ self.splitfile[dispatched[i].index] = dispatched[i].line)
        => AddsAt(dispatched[i].index) = {}

\* The calls the last parse() made on the session state for the line at
\* this index, in their order.
OpsAt(index) ==
    LET at == SelectSeq(calls, LAMBDA c : c.at = index)
    IN  [k \in 1..Len(at) |-> at[k].op]

\* The calls a line of the mixed log leads to, in the order of the tests:
\* room, floor, reroll, item-add, item-remove. An item-add line ends without
\* a call of add_item when a rule suppresses it or no floor is there yet; a
\* line that has lost its first bytes satisfies the test of the reroll at most.
OpsOf(line) ==
    CASE line = FloorReroll -> {<<"reset", "add_floor", "reroll">>}
      [] line = RoomReroll -> {<<"change_room", "reroll">>}
      [] line = AddReroll -> {<<"reroll", "add_item">>, <<"reroll">>}
      [] line = RemoveReroll -> {<<"reroll", "remove_item">>}
      [] OTHER -> {<<"reroll">>, <<>>}

(* C13: the handler of every test a line satisfies runs, none is skipped
   because an earlier test matched, and the handlers run in the order of the
   tests: room, floor, reroll, item-add, item-remove. A line that starts with
   "Adding collectible " and holds "Added 3 Collectibles" leads to
   state.reroll() first and to the item-add after it. *)
C13_OrderedDispatch ==
    \A i \in 1..Len(dispatched) :
        OpsAt(dispatched[i].index) \in OpsOf(dispatched[i].line)

\* A parse() has processed a room line and an item-add line that both
\* satisfy the test of the reroll, and the item was added.
C13_Witness ==
    /\ result = "state"
    /\ \E i \in 1..Len(dispatched) :
           /\ dispatched[i].line = AddReroll
           /\ OpsAt(dispatched[i].index) = <<"reroll", "add_item">>
    /\ \E i \in 1..Len(dispatched) :
           /\ dispatched[i].line = RoomReroll
           /\ OpsAt(dispatched[i].index) = <<"change_room", "reroll">>

\* Whether the raw line is a room line that leaves the start room.
LeavesStartRoom(raw) ==
    startswith(Normalized(raw), <<"R","o","o","m">>) /\ ~contains(Normalized(raw), <<"S","t","a","r","t"," ","R","o","o","m">>)

\* Whether a floor-init line of Afterbirth+ comes before this index in the
\* log, with no room line that leaves the start room after it.
InStartRoom(index) ==
    \E j \in 1..index :
        /\ self.splitfile[j] \in {FloorInitStage1, FloorInitStage2}
        /\ \A k \in (j + 1)..index : ~LeavesStartRoom(self.splitfile[k])

(* C14: every item-add or trinket-gulp line that follows a floor-init line
   of the version, with no room line that leaves the start room in between,
   gives an item with is_starting_item true, also when an earlier parse()
   read the floor-init line. *)
C14_StartingItems ==
    \A c \in CallsOf("add_item") :
        (game_version = "Afterbirth+" /\ calls[c].at >= 0 /\ InStartRoom(calls[c].at))
        => calls[c].starting_item

\* The floor-init lines of the run scenario that the regular expression of
\* the version matches, and those it does not match or that the version
\* leaves unread.
MatchedFloorInit(version) ==
    CASE version \in {"Afterbirth", "Afterbirth+"} -> {FloorInitStage1, FloorInitStage2}
      [] version \in {"Rebirth", "Antibirth"} -> {FloorInitAltStage1}
      [] OTHER -> {}

UnmatchedFloorInit(version) ==
    {FloorInitStage1, FloorInitStage2, FloorInitAltStage1} \ MatchedFloorInit(version)

\* Whether the last parse() processed floor-init lines only, none of which
\* the version reads.
OnlyUnmatchedFloorInit ==
    /\ dispatched # <<>>
    /\ \A i \in 1..Len(dispatched) : dispatched[i].line \in UnmatchedFloorInit(game_version)

(* C15: a "Level::Init" line processed under an unrecognized game version,
   or that the regular expression of the version does not match, changes
   nothing: it leads to no call on the session state, it does not set
   getting_start_items, and a parse() that appends such lines only leaves
   the session state and run_start_line as they were. *)
C15_FloorNoEffect ==
    [][result' = "state" =>
         /\ \A i \in 1..Len(dispatched') :
                dispatched'[i].line \in UnmatchedFloorInit(game_version)
                => \A c \in 1..Len(calls') : calls'[c].at # dispatched'[i].index
         /\ self'.getting_start_items =
                (\E i \in 1..Len(dispatched') :
                     dispatched'[i].line \in MatchedFloorInit(game_version))
         /\ (branch' = "append" /\ OnlyUnmatchedFloorInit')
                => /\ self'.state = self.state
                   /\ self'.run_start_line = self.run_start_line]_vars

\* An append of a floor-init line that the version does not read, in a
\* session that holds a floor.
C15_Witness ==
    /\ result = "state"
    /\ branch = "append"
    /\ OnlyUnmatchedFloorInit
    /\ self.state.floor_list # <<>>

\* The absolute indices of the lines the last parse() gave to __parse_line.
DispatchedIndices == {dispatched[i].index : i \in 1..Len(dispatched)}

(* C17: a line that one parse() has given to __parse_line is not given to
   it again by the next parse(), unless that one takes the file for a new
   log: the two calls have no absolute line index in common. *)
C17_AtMostOnce ==
    [][(result # "none" /\ result' # "none" /\ branch' # "new")
           => DispatchedIndices \cap DispatchedIndices' = {}]_vars

\* A fresh LogParser that has loaded the text as its whole log, and what a
\* single parse() of that log makes of it.
FreshlyLoaded(text) ==
    [reset(parse_begin(init)) EXCEPT !.self.content = text]

SingleParse(text) ==
    Call(LAMBDA mSplit : parse_lines(mSplit, 0), parse_split(FreshlyLoaded(text)))

\* The calls on the session state with their arguments, without the line
\* that led to them.
Arguments(cs) ==
    [k \in 1..Len(cs) |-> [op |-> cs[k].op, id |-> cs[k].id,
                           starting_item |-> cs[k].starting_item, blind |-> cs[k].blind]]

\* Whether the parser is where one parse() of its cached content, from a
\* fresh engine, leaves it.
ParsedOnce ==
    /\ self.content # <<>>
    /\ self.seek = Len(splitlines(self.content))
    /\ self.state = SingleParse(self.content).self.state

(* C18: when a log is delivered as a first write and an append, with a
   parse() after each, the calls made on the session state in total, with
   their arguments, are those of a single parse() of the complete file by a
   fresh engine. *)
C18_Chunking ==
    [][(/\ ParsedOnce
        /\ IsPrefix(self.content, file')
        /\ result' = "state"
        /\ branch' = "append")
       => Arguments(SingleParse(self.content).calls) \o Arguments(calls')
              = Arguments(SingleParse(file').calls)]_vars

\* "<id> (<name>)": what an item-add or item-remove line says after
\* "Adding collectible " or "Removing collectible ".
CollectibleOf(raw) ==
    LET space_split == split(Normalized(raw), " ")
    IN  join(<<" ">>, SubSeq(space_split, 3, Len(space_split)))

\* The calls of remove_item the last parse() made for the line at this index.
RemovesAt(index) == {c \in CallsOf("remove_item") : calls[c].at = index}

(* C19: the id that "Removing collectible <id> (<name>)" passes to
   remove_item is the id that an earlier "Adding collectible <id> (<name>)",
   for the same <id> and <name>, gave to add_item, whether the lookup knows
   the item or not. *)
C19_AddRemoveAgree ==
    \A i, j \in 1..Len(dispatched) :
        (/\ dispatched[i].index < dispatched[j].index
         /\ CollectibleOf(dispatched[i].line) = CollectibleOf(dispatched[j].line))
        => \A a \in AddsAt(dispatched[i].index), r \in RemovesAt(dispatched[j].index) :
               calls[a].id = calls[r].id

(* C20: an item-add line at index 0 of the log has no line before it and is
   never skipped by the exact-echo rule: the parse() that processes it calls
   add_item for it, or raises at it for want of a floor. *)
C20_NoPredecessor ==
    \A i \in 1..Len(dispatched) :
        (dispatched[i].index = 0 /\ IsItemAddLine(dispatched[i].line))
        => \/ AddedAt(0)
           \/ result = "error" /\ dispatched[Len(dispatched)].index = 0

============================================================================
